---- MODULE Spec2Model ----
(***************************************************************************)
(* Model of app3.py, a Streamlit script that extracts a video identifier   *)
(* from a pasted link, fetches the transcript, renders a prompt and asks   *)
(* a generative model for a summary.  Both external calls are wrapped in   *)
(* st.cache_data.                                                          *)
(*                                                                         *)
(* Python strings are modelled as sequences of one-character strings.      *)
(* Python's None is the one-element sequence None below; its element is    *)
(* longer than one character, so it equals no modelled string.             *)
(***************************************************************************)
EXTENDS Integers, Sequences, FiniteSets, TLC

\* ------------------------------------------------------------------------
\* Bounds of the model
\* ------------------------------------------------------------------------
MaxIdPieces == 2
MaxTailPieces == 1
MaxRuns == 2

\* ------------------------------------------------------------------------
\* Python values and string primitives
\* ------------------------------------------------------------------------
None == <<"<None>">>

Truthy(v) == v # None /\ v # <<>>

\* s[i:] of Python, with i 1-based here
From(s, i) == SubSeq(s, i, Len(s))

MatchAt(s, sub, i) == i + Len(sub) - 1 <= Len(s) /\ SubSeq(s, i, i + Len(sub) - 1) = sub

Occurrences(s, sub) == {i \in 1..Len(s) : MatchAt(s, sub, i)}

\* "sub in s"
Contains(s, sub) == \E i \in 1..Len(s) : MatchAt(s, sub, i)

\* position of the leftmost occurrence (Contains(s, sub) assumed)
Find(s, sub) == CHOOSE i \in 1..Len(s) : MatchAt(s, sub, i) /\ \A j \in 1..(i - 1) : ~MatchAt(s, sub, j)

\* s.split(sep): pieces between the leftmost non-overlapping occurrences
RECURSIVE split(_, _)
split(s, sep) ==
  IF ~Contains(s, sep) THEN <<s>>
  ELSE LET i == Find(s, sep)
       IN <<SubSeq(s, 1, i - 1)>> \o split(From(s, i + Len(sep)), sep)

\* s.replace(old, new): every leftmost non-overlapping occurrence
RECURSIVE replace(_, _, _)
replace(s, old, new) ==
  IF ~Contains(s, old) THEN s
  ELSE LET i == Find(s, old)
       IN SubSeq(s, 1, i - 1) \o new \o replace(From(s, i + Len(old)), old, new)

\* sep.join(parts)
RECURSIVE join(_, _)
join(sep, parts) ==
  IF parts = <<>> THEN <<>>
  ELSE IF Len(parts) = 1 THEN parts[1]
  ELSE parts[1] \o sep \o join(sep, Tail(parts))

\* ------------------------------------------------------------------------
\* extract_video_id
\* ------------------------------------------------------------------------
MARKER_SHORT == <<"y","o","u","t","u",".","b","e","/">>
MARKER_QUERY == <<"v","=">>
MARKER_EMBED == <<"e","m","b","e","d","/">>
QMARK == <<"?">>
AMP == <<"&">>

extract_video_id_first_delim(url) ==
  LET cut(s) == split(split(s, QMARK)[1], AMP)[1]
  IN IF Contains(url, MARKER_SHORT) THEN cut(split(url, MARKER_SHORT)[2])
     ELSE IF Contains(url, MARKER_QUERY) THEN cut(split(url, MARKER_QUERY)[2])
     ELSE IF Contains(url, MARKER_EMBED) THEN cut(split(url, MARKER_EMBED)[2])
     ELSE None

extract_video_id_embed_first(url) ==
  IF Contains(url, MARKER_EMBED) THEN split(split(url, MARKER_EMBED)[2], QMARK)[1]
  ELSE IF Contains(url, MARKER_QUERY) THEN split(split(url, MARKER_QUERY)[2], AMP)[1]
  ELSE IF Contains(url, MARKER_SHORT) THEN split(split(url, MARKER_SHORT)[2], QMARK)[1]
  ELSE None

extract_video_id_no_default(url) ==
  IF Contains(url, MARKER_SHORT) THEN split(split(url, MARKER_SHORT)[2], QMARK)[1]
  ELSE IF Contains(url, MARKER_QUERY) THEN split(split(url, MARKER_QUERY)[2], AMP)[1]
  ELSE IF Contains(url, MARKER_EMBED) THEN split(split(url, MARKER_EMBED)[2], QMARK)[1]
  ELSE url

extract_video_id(url) ==
  IF Contains(url, MARKER_SHORT) THEN split(split(url, MARKER_SHORT)[2], QMARK)[1]
  ELSE IF Contains(url, MARKER_QUERY) THEN split(split(url, MARKER_QUERY)[2], AMP)[1]
  ELSE IF Contains(url, MARKER_EMBED) THEN split(split(url, MARKER_EMBED)[2], QMARK)[1]
  ELSE None

\* ------------------------------------------------------------------------
\* DEFAULT_PROMPT and the prompt selection
\* ------------------------------------------------------------------------
\* The template is the text of source lines 15-66.  Line 50 is kept character
\* by character; the lines before and after it, which hold no "250 words",
\* are one opaque element each.
DEFAULT_PROMPT ==
  <<"[template lines 15-49]">>
  \o <<"K","e","e","p"," ","s","u","m","m","a","r","i","e","s"," ","u","n","d","e","r"," ">>
  \o <<"2","5","0"," ","w","o","r","d","s">>
  \o <<" ","(","a","d","j","u","s","t"," ","s","u","b","h","e","a","d","i","n","g"," ",
       "d","e","p","t","h"," ","a","s"," ","n","e","e","d","e","d",")",".">>
  \o <<"[template lines 51-66]">>

WORDS_250 == <<"2","5","0"," ","w","o","r","d","s">>
WORDS_100 == <<"1","0","0"," ","w","o","r","d","s">>
WORDS_500 == <<"5","0","0"," ","w","o","r","d","s">>

SHORT == "Short (100 words)"
MEDIUM == "Medium (250 words)"
DETAILED == "Detailed (500 words)"
SummaryLengths == {SHORT, MEDIUM, DETAILED}

\* line 146 and line 148
PromptShort == replace(DEFAULT_PROMPT, WORDS_250, WORDS_100)
PromptDetailed == replace(DEFAULT_PROMPT, WORDS_250, WORDS_500)

SelectPromptShortOnly(summary_length) ==
  IF summary_length = SHORT THEN PromptShort
  ELSE DEFAULT_PROMPT

\* lines 144-148
SelectPrompt(summary_length) ==
  IF summary_length = SHORT THEN PromptShort
  ELSE IF summary_length = DETAILED THEN PromptDetailed
  ELSE DEFAULT_PROMPT

\* ------------------------------------------------------------------------
\* Messages shown with st.error / st.warning (emoji prefixes left out).
\* A message is a sequence of strings: a fixed text, or a fixed prefix
\* followed by str(e).
\* ------------------------------------------------------------------------
MsgInvalidUrl == <<"Invalid YouTube URL. Please check the link format.">>
MsgNoTranscript == <<"No transcript available for this video.">>
MsgFetchError(e) == <<"Error fetching transcript: ", e.msg>>
MsgGeminiError(e) == <<"Gemini API error: ", e.msg>>
MsgEnterUrl == <<"Please enter a YouTube URL">>

LabelProcessing == "Processing video..."
LabelComplete == "Processing complete!"

\* ------------------------------------------------------------------------
\* Exceptions.  Every class modelled derives from Exception, as the classes
\* the two services raise do.
\* ------------------------------------------------------------------------
NoExc == "none"

CatchesExactClass(clause, cls) == cls \in clause

\* "except <clause>:" catches an instance of cls
Catches(clause, cls) == cls \in clause \/ "Exception" \in clause

\* ------------------------------------------------------------------------
\* extract_transcript_details, the function body (without the cache)
\* tOut is what YouTubeTranscriptApi.get_transcript does when it is called:
\* [kind |-> "ok", texts |-> <<...>>] or [kind |-> "raise", cls, msg].
\* ------------------------------------------------------------------------
TranscriptReturn(value, msgs, called, raised, propagated) ==
  [value |-> value, msgs |-> msgs, called |-> called, raised |-> raised,
   propagated |-> propagated]

TranscriptHandlersSeparate(e) ==
  IF Catches({"TranscriptsDisabled"}, e.cls)
    THEN TranscriptReturn(None, <<<<"Transcripts are disabled for this video.">>>>, TRUE, e.cls, NoExc)
  ELSE IF Catches({"NoTranscriptFound"}, e.cls)
    THEN TranscriptReturn(None, <<MsgNoTranscript>>, TRUE, e.cls, NoExc)
  ELSE IF Catches({"Exception"}, e.cls)
    THEN TranscriptReturn(None, <<MsgFetchError(e)>>, TRUE, e.cls, NoExc)
  ELSE TranscriptReturn(None, <<>>, TRUE, e.cls, e.cls)

\* the except clauses of lines 91-96
TranscriptHandlers(e) ==
  IF Catches({"TranscriptsDisabled", "NoTranscriptFound"}, e.cls)
    THEN TranscriptReturn(None, <<MsgNoTranscript>>, TRUE, e.cls, NoExc)
  ELSE IF Catches({"Exception"}, e.cls)
    THEN TranscriptReturn(None, <<MsgFetchError(e)>>, TRUE, e.cls, NoExc)
  ELSE TranscriptReturn(None, <<>>, TRUE, e.cls, e.cls)

\* "if not video_id" is false
ValidVideoId(video_id) == Truthy(video_id)

JoinFragments(texts) == join(<<" ">>, texts)

extract_transcript_details(youtube_video_url, tOut) ==
  LET video_id == extract_video_id(youtube_video_url)
  IN IF ~ValidVideoId(video_id)
       THEN TranscriptReturn(None, <<MsgInvalidUrl>>, FALSE, NoExc, NoExc)
     ELSE IF tOut.kind = "ok"
       THEN TranscriptReturn(JoinFragments(tOut.texts), <<>>, TRUE, NoExc, NoExc)
     ELSE TranscriptHandlers(tOut)

\* ------------------------------------------------------------------------
\* generate_gemini_content, the function body (without the cache)
\* gOut is what model.generate_content does: [kind |-> "ok", text] or
\* [kind |-> "raise", cls, msg].
\* ------------------------------------------------------------------------
GeminiReturn(value, msgs, sent, raised, propagated) ==
  [value |-> value, msgs |-> msgs, called |-> TRUE, sent |-> sent,
   raised |-> raised, propagated |-> propagated]

\* the argument of generate_content, line 103
FinalPrompt(transcript_text, prompt) == prompt \o transcript_text

generate_gemini_content(transcript_text, prompt, gOut) ==
  LET sent == FinalPrompt(transcript_text, prompt)
  IN IF gOut.kind = "ok" THEN GeminiReturn(gOut.text, <<>>, sent, NoExc, NoExc)
     ELSE IF Catches({"Exception"}, gOut.cls)
       THEN GeminiReturn(None, <<MsgGeminiError(gOut)>>, sent, gOut.cls, NoExc)
     ELSE GeminiReturn(None, <<>>, sent, gOut.cls, gOut.cls)

\* ------------------------------------------------------------------------
\* st.cache_data: a cache from the call's arguments to the returned value and
\* the st elements the call showed (they are replayed on a hit).  A call that
\* raises stores nothing.
\* ------------------------------------------------------------------------
EmptyCache == <<>>

CacheHit(cache, key) == key \in DOMAIN cache

CacheStoreSuccessOnly(cache, key, r) ==
  IF r.propagated # NoExc \/ r.value = None THEN cache
  ELSE [k \in DOMAIN cache \cup {key} |->
          IF k = key THEN [value |-> r.value, msgs |-> r.msgs] ELSE cache[k]]

CacheStoreNever(cache, key, r) == cache

CacheStore(cache, key, r) ==
  IF r.propagated # NoExc THEN cache
  ELSE [k \in DOMAIN cache \cup {key} |->
          IF k = key THEN [value |-> r.value, msgs |-> r.msgs] ELSE cache[k]]

\* ------------------------------------------------------------------------
\* The cached functions (lines 79-80 and 98-99)
\* ------------------------------------------------------------------------
Replayed(entry) ==
  [value |-> entry.value, msgs |-> entry.msgs, called |-> FALSE, sent |-> None,
   raised |-> NoExc, propagated |-> NoExc]

cached_extract_transcript_details(cache, youtube_video_url, tOut) ==
  IF CacheHit(cache, youtube_video_url)
    THEN [r |-> Replayed(cache[youtube_video_url]), cache |-> cache]
  ELSE LET r == extract_transcript_details(youtube_video_url, tOut)
       IN [r |-> r, cache |-> CacheStore(cache, youtube_video_url, r)]

cached_generate_gemini_content(cache, transcript_text, prompt, gOut) ==
  IF CacheHit(cache, <<transcript_text, prompt>>)
    THEN [r |-> Replayed(cache[<<transcript_text, prompt>>]), cache |-> cache]
  ELSE LET r == generate_gemini_content(transcript_text, prompt, gOut)
       IN [r |-> r, cache |-> CacheStore(cache, <<transcript_text, prompt>>, r)]

\* ------------------------------------------------------------------------
\* State
\* ------------------------------------------------------------------------
VARIABLES
  youtube_link,      \* the text field of line 137
  linkParts,         \* how the pasted link was composed: prefix, id, rest
  summary_length,    \* the selectbox of line 123
  clicked,           \* the button whose click started the last script run, or "none"
  video_id,          \* the identifier of the thumbnail, lines 151-152
  ui,                \* what the last script run rendered
  trace,             \* what the last script run did to the two services
  transcript_cache,  \* st.cache_data of extract_transcript_details
  gemini_cache,      \* st.cache_data of generate_gemini_content
  transcript_calls,  \* get_transcript calls so far, per link
  gemini_calls,      \* generate_content calls so far, per (transcript, prompt)
  served,            \* the fragments get_transcript returned, per link
  seen,              \* the outcome of the first Generate run, per (link, length)
  shownFor,          \* the messages shown so far, per transcript failure
  runs               \* Generate runs so far

vars == <<youtube_link, linkParts, summary_length, clicked, video_id, ui, trace,
          transcript_cache, gemini_cache, transcript_calls, gemini_calls, served,
          seen, shownFor, runs>>

BlankUi ==
  [messages |-> <<>>, statusLabel |-> "", statusState |-> "", summary |-> None,
   download |-> None, againButton |-> FALSE]

BlankTrace ==
  [tCalled |-> FALSE, tValue |-> None, tRaised |-> NoExc,
   gCalled |-> FALSE, gValue |-> None, gRaised |-> NoExc, sent |-> None,
   propagated |-> NoExc, repeat |-> FALSE]

\* st.button returns True only in the run its own click started
Button(label, click) == click = label

\* lines 151-152
Thumbnail(link) == IF link # <<>> THEN extract_video_id(link) ELSE None

\* ------------------------------------------------------------------------
\* One run of the script, lines 143-201.  click is the button that started
\* the run; tOut and gOut are what the services do if they are called.
\* The result holds what the run rendered, what it did to the services and
\* the two caches after it.
\* ------------------------------------------------------------------------
ScriptResult(u, tr, tcache, gcache, cleared) ==
  [ui |-> u, trace |-> tr, tcache |-> tcache, gcache |-> gcache, cleared |-> cleared]

TranscriptTrace(t) ==
  [BlankTrace EXCEPT !.tCalled = t.r.called, !.tValue = t.r.value,
                     !.tRaised = t.r.raised, !.propagated = t.r.propagated]

GenerationTrace(t, g) ==
  [TranscriptTrace(t) EXCEPT !.gCalled = g.r.called, !.gValue = g.r.value,
                             !.sent = g.r.sent, !.gRaised = g.r.raised,
                             !.propagated = g.r.propagated]

\* lines 172-175: the status box and what extract_transcript_details showed
TranscriptUi(t, state) ==
  [BlankUi EXCEPT !.messages = t.r.msgs, !.statusLabel = LabelProcessing,
                  !.statusState = state]

\* lines 179-182
GenerationUi(t, g, label, state) ==
  [BlankUi EXCEPT !.messages = t.r.msgs \o g.r.msgs, !.statusLabel = label,
                  !.statusState = state]

\* lines 184-201, after generate_gemini_content returned
GenerationStep(t, g, click) ==
  IF g.r.propagated # NoExc
    THEN ScriptResult(GenerationUi(t, g, LabelProcessing, "error"),
                      GenerationTrace(t, g), t.cache, g.cache, FALSE)
  ELSE IF ~Truthy(g.r.value)
    THEN ScriptResult(GenerationUi(t, g, LabelComplete, "complete"),
                      GenerationTrace(t, g), t.cache, g.cache, FALSE)
  ELSE IF Button("again", click)
    \* lines 200-201: st.cache_data.clear(), then st.rerun()
    THEN ScriptResult(BlankUi, BlankTrace, EmptyCache, EmptyCache, TRUE)
  ELSE ScriptResult([GenerationUi(t, g, LabelComplete, "complete")
                       EXCEPT !.summary = g.r.value, !.download = g.r.value,
                              !.againButton = TRUE],
                    GenerationTrace(t, g), t.cache, g.cache, FALSE)

\* lines 177-180, after extract_transcript_details returned
TranscriptStep(t, prompt, click, gOut, gcache) ==
  IF t.r.propagated # NoExc
    THEN ScriptResult(TranscriptUi(t, "error"), TranscriptTrace(t), t.cache, gcache, FALSE)
  ELSE IF ~Truthy(t.r.value)
    THEN ScriptResult(TranscriptUi(t, "complete"), TranscriptTrace(t), t.cache, gcache, FALSE)
  ELSE GenerationStep(t, cached_generate_gemini_content(gcache, t.r.value, prompt, gOut),
                      click)

Script(link, length, click, tOut, gOut, tcache, gcache) ==
  IF ~Button("generate", click)
    THEN ScriptResult(BlankUi, BlankTrace, tcache, gcache, FALSE)
  ELSE IF link = <<>>
    THEN ScriptResult([BlankUi EXCEPT !.messages = <<MsgEnterUrl>>], BlankTrace,
                      tcache, gcache, FALSE)
  ELSE TranscriptStep(cached_extract_transcript_details(tcache, link, tOut),
                      SelectPrompt(length), click, gOut, gcache)

\* ------------------------------------------------------------------------
\* Inputs
\* ------------------------------------------------------------------------
PrefixShort == <<"h","t","t","p","s",":","/","/","y","o","u","t","u",".","b","e","/">>
PrefixWatch == <<"h","t","t","p","s",":","/","/","y","o","u","t","u","b","e",".","c","o","m","/",
                 "w","a","t","c","h","?","v","=">>
PrefixEmbed == <<"h","t","t","p","s",":","/","/","y","o","u","t","u","b","e",".","c","o","m","/",
                 "e","m","b","e","d","/">>
PrefixOther == <<"h","t","t","p","s",":","/","/","e","x","a","m","p","l","e",".","c","o","m","/">>

Parts(prefix, id, rest) == [prefix |-> prefix, id |-> id, rest |-> rest]
Link(parts) == parts.prefix \o parts.id \o parts.rest

\* the links of a session: the field cleared, or one of three links pasted
SessionParts ==
  { Parts(<<>>, <<>>, <<>>),
    Parts(PrefixShort, <<"X","Y","Z">>, <<>>),
    Parts(PrefixWatch, <<"X","Y","Z">>, <<>>),
    Parts(PrefixOther, <<"v","i","d","e","o">>, <<>>) }

\* the links given to the identifier extractor alone
Pieces == { <<"A">>, QMARK, AMP, MARKER_SHORT, MARKER_QUERY, MARKER_EMBED }

RECURSIVE Bodies(_)
Bodies(n) ==
  IF n = 0 THEN {<<>>}
  ELSE LET B == Bodies(n - 1) IN B \cup {b \o p : b \in B, p \in Pieces}

Rests == {<<>>} \cup {d \o b : d \in {QMARK, AMP}, b \in Bodies(MaxTailPieces)}

ExtractorParts ==
  { Parts(pre, id, rest) : pre \in {PrefixShort, PrefixWatch, PrefixEmbed, PrefixOther},
                           id \in Bodies(MaxIdPieces), rest \in Rests }

FragmentLists ==
  { <<>>,
    << <<"A","I">>, <<"i","s">>, <<"t","r","a","n","s","f","o","r","m","i","n","g">>,
       <<"c","o","d","i","n","g">> >>,
    << <<"H","e","l","l","o">>, <<"w","o","r","l","d">> >> }

TranscriptOutcomes ==
  { [kind |-> "ok", texts |-> f] : f \in FragmentLists }
  \cup { [kind |-> "raise", cls |-> "TranscriptsDisabled", msg |-> "subtitles are disabled"],
         [kind |-> "raise", cls |-> "NoTranscriptFound", msg |-> "no transcripts were found"],
         [kind |-> "raise", cls |-> "ConnectionError", msg |-> "connection timed out"] }

GeminiOutcomes ==
  { [kind |-> "ok", text |-> <<"S","1">>],
    [kind |-> "raise", cls |-> "ResourceExhausted", msg |-> "quota exceeded"] }

\* ------------------------------------------------------------------------
\* Bookkeeping of the observed calls and outcomes
\* ------------------------------------------------------------------------
Count(f, k) == IF k \in DOMAIN f THEN f[k] ELSE 0

Incr(f, k) == [x \in DOMAIN f \cup {k} |-> IF x = k THEN Count(f, k) + 1 ELSE f[x]]

Put(f, k, v) == [x \in DOMAIN f \cup {k} |-> IF x = k THEN v ELSE f[x]]

Outcome(u) == [messages |-> u.messages, summary |-> u.summary, download |-> u.download]

\* ------------------------------------------------------------------------
\* Init and the actions: every action is one run of the script
\* ------------------------------------------------------------------------
Init ==
  /\ youtube_link = <<>>
  /\ linkParts = Parts(<<>>, <<>>, <<>>)
  /\ summary_length = MEDIUM
  /\ clicked = "none"
  /\ video_id = None
  /\ ui = BlankUi
  /\ trace = BlankTrace
  /\ transcript_cache = EmptyCache
  /\ gemini_cache = EmptyCache
  /\ transcript_calls = <<>>
  /\ gemini_calls = <<>>
  /\ served = <<>>
  /\ seen = <<>>
  /\ shownFor = <<>>
  /\ runs = 0

\* the session after a script run with result s
Apply(link, parts, length, click, tOut, s, repeat) ==
  /\ youtube_link' = link
  /\ linkParts' = parts
  /\ summary_length' = length
  /\ clicked' = click
  /\ video_id' = Thumbnail(link)
  /\ ui' = s.ui
  /\ trace' = [s.trace EXCEPT !.repeat = repeat]
  /\ transcript_cache' = s.tcache
  /\ gemini_cache' = s.gcache
  /\ transcript_calls' = IF s.cleared THEN <<>>
                         ELSE IF s.trace.tCalled THEN Incr(transcript_calls, link)
                         ELSE transcript_calls
  /\ gemini_calls' = IF s.cleared THEN <<>>
                     ELSE IF s.trace.gCalled
                       THEN Incr(gemini_calls, <<s.trace.tValue, SelectPrompt(length)>>)
                     ELSE gemini_calls
  /\ served' = IF s.trace.tCalled /\ tOut.kind = "ok" THEN Put(served, link, tOut.texts)
               ELSE served
  /\ seen' = IF s.cleared THEN <<>>
             ELSE IF click = "generate" /\ ~repeat THEN Put(seen, <<link, length>>, Outcome(s.ui))
             ELSE seen
  /\ shownFor' = IF s.trace.tRaised # NoExc
                   THEN Put(shownFor, s.trace.tRaised,
                            (IF s.trace.tRaised \in DOMAIN shownFor
                               THEN shownFor[s.trace.tRaised] ELSE {})
                            \cup {s.ui.messages})
                 ELSE shownFor
  /\ runs' = IF click = "generate" THEN runs + 1 ELSE runs

Run(parts, length, click, tOut, gOut) ==
  Apply(Link(parts), parts, length, click, tOut,
        Script(Link(parts), length, click, tOut, gOut, transcript_cache, gemini_cache),
        click = "generate" /\ <<Link(parts), length>> \in DOMAIN seen)

NoOutcome == [kind |-> "unused"]

\* the user pastes another link: the script runs with no button pressed
EditLink(parts) ==
  /\ Link(parts) # youtube_link
  /\ Run(parts, summary_length, "none", NoOutcome, NoOutcome)

\* the user picks another summary length
SelectLength(length) ==
  /\ length # summary_length
  /\ Run(linkParts, length, "none", NoOutcome, NoOutcome)

\* the user presses "Generate Summary"
ClickGenerate(tOut, gOut) ==
  /\ runs < MaxRuns
  /\ Run(linkParts, summary_length, "generate", tOut, gOut)

\* the user presses "Generate Again", which the last run rendered
ClickGenerateAgain ==
  /\ ui.againButton
  /\ Run(linkParts, summary_length, "again", NoOutcome, NoOutcome)

Next ==
  \/ \E parts \in SessionParts : EditLink(parts)
  \/ \E length \in SummaryLengths : SelectLength(length)
  \/ \E tOut \in TranscriptOutcomes, gOut \in GeminiOutcomes : ClickGenerate(tOut, gOut)
  \/ ClickGenerateAgain

Spec == Init /\ [][Next]_vars

\* the identifier extractor alone: a composed link is pasted into the empty field
PasteComposedLink ==
  /\ youtube_link = <<>>
  /\ \E parts \in ExtractorParts : EditLink(parts)

NextExtractor == PasteComposedLink

SpecExtractor == Init /\ [][NextExtractor]_vars

\* ========================================================================
\* Properties of the identifier extractor (under SpecExtractor)
\* ========================================================================
HasMarker(url) ==
  Contains(url, MARKER_SHORT) \/ Contains(url, MARKER_QUERY) \/ Contains(url, MARKER_EMBED)

IsIdentifier(x) ==
  /\ x # <<>>
  /\ ~Contains(x, QMARK)
  /\ ~Contains(x, AMP)
  /\ ~HasMarker(x)

StartsWith(s, c) == s # <<>> /\ Head(s) = c

\* the pasted link is one of the three shapes around the identifier linkParts.id
ShortShape == linkParts.prefix = PrefixShort /\ StartsWith(linkParts.rest, "?")
WatchShape == linkParts.prefix = PrefixWatch /\ StartsWith(linkParts.rest, "&")
EmbedShape == linkParts.prefix = PrefixEmbed /\ StartsWith(linkParts.rest, "?")

\* C1 as stated: for every identifier X (non-empty, without '?', '&' or a
\* marker), each of the shapes youtu.be/X?..., watch?v=X&... and embed/X?...
\* yields exactly X, whatever follows X.
C1_AnyTail ==
  (youtube_link # <<>> /\ IsIdentifier(linkParts.id)
     /\ (ShortShape \/ WatchShape \/ EmbedShape))
  => video_id = linkParts.id

\* C1 amended: each of the three shapes yields exactly X provided the part
\* after X holds no marker that is looked for before the shape's own marker:
\* no 'youtu.be/' after X in the watch and embed shapes, and no 'v=' after X
\* in the embed shape.
C1_ShapesYieldIdentifier ==
  (youtube_link # <<>> /\ IsIdentifier(linkParts.id)
     /\ \/ ShortShape
        \/ WatchShape /\ ~Contains(linkParts.rest, MARKER_SHORT)
        \/ EmbedShape /\ ~Contains(linkParts.rest, MARKER_SHORT)
                      /\ ~Contains(linkParts.rest, MARKER_QUERY))
  => video_id = linkParts.id

C1_Witness ==
  /\ EmbedShape
  /\ linkParts.id = <<"A", "A">>
  /\ linkParts.rest = <<"?", "A">>
  /\ youtube_link = PrefixEmbed \o <<"A", "A", "?", "A">>
  /\ video_id = <<"A", "A">>

\* the text of s before its first '?' or '&'
RECURSIVE UpToDelimiter(_)
UpToDelimiter(s) ==
  IF s = <<>> \/ Head(s) \in {"?", "&"} THEN <<>>
  ELSE <<Head(s)>> \o UpToDelimiter(Tail(s))

\* C2 as stated: for a link holding a marker, the identifier is the text after
\* the marker up to the next '?' or '&' (or the end), so it holds neither.
C2_EitherDelimiter ==
  (youtube_link # <<>> /\ HasMarker(youtube_link))
  => /\ \E m \in {MARKER_SHORT, MARKER_QUERY, MARKER_EMBED} :
          \E i \in Occurrences(youtube_link, m) :
             video_id = UpToDelimiter(From(youtube_link, i + Len(m)))
     /\ ~Contains(video_id, QMARK)
     /\ ~Contains(video_id, AMP)

\* the marker that decides, in the order the markers are looked for
DecidingMarker(url) ==
  IF Contains(url, MARKER_SHORT) THEN MARKER_SHORT
  ELSE IF Contains(url, MARKER_QUERY) THEN MARKER_QUERY
  ELSE MARKER_EMBED

DelimiterOf(m) == IF m = MARKER_QUERY THEN "&" ELSE "?"

\* C2 amended: with m the first of 'youtu.be/', 'v=', 'embed/' that the link
\* holds, the identifier is the text after the first m up to, not including,
\* the next delimiter of m ('?' for 'youtu.be/' and 'embed/', '&' for 'v='),
\* the next m, or the end, whichever comes first; it never holds that
\* delimiter (it may hold the other one).
C2_MarkerDelimiter ==
  (youtube_link # <<>> /\ HasMarker(youtube_link))
  => LET m == DecidingMarker(youtube_link)
         d == DelimiterOf(m)
         after == From(youtube_link, Find(youtube_link, m) + Len(m))
     IN /\ \E n \in 0..Len(after) :
             /\ video_id = SubSeq(after, 1, n)
             /\ \A i \in 1..n : after[i] # d /\ ~MatchAt(after, m, i)
             /\ n = Len(after) \/ after[n + 1] = d \/ MatchAt(after, m, n + 1)
        /\ ~Contains(video_id, <<d>>)

C2_Witness ==
  /\ youtube_link = PrefixShort \o <<"A", "&", "A">>
  /\ video_id = <<"A", "&", "A">>

\* ========================================================================
\* Properties of a session (under Spec)
\* ========================================================================
Generated == clicked = "generate"

NoServiceCalled == ~trace.tCalled /\ ~trace.gCalled

NothingRendered == ui.summary = None /\ ui.download = None /\ ~ui.againButton

\* C3 as stated: for every link holding none of the three markers, there is no
\* identifier and Generate shows the invalid-URL message without calling the
\* transcript service or the generation service.
C3_AnyLinkWithoutMarker ==
  (Generated /\ ~HasMarker(youtube_link))
  => /\ video_id = None
     /\ ui.messages = <<MsgInvalidUrl>>
     /\ NoServiceCalled

\* C3 amended: for every non-empty link holding none of the three markers,
\* there is no identifier and Generate shows the invalid-URL message without
\* calling either service; for the empty link Generate shows the "Please
\* enter a YouTube URL" warning instead, again without calling either service.
C3_InvalidUrlFailsAtOnce ==
  (Generated /\ ~HasMarker(youtube_link))
  => /\ video_id = None
     /\ ui.messages = IF youtube_link = <<>> THEN <<MsgEnterUrl>> ELSE <<MsgInvalidUrl>>
     /\ NoServiceCalled
     /\ NothingRendered

C3_Witness ==
  /\ Generated
  /\ youtube_link = PrefixOther \o <<"v","i","d","e","o">>
  /\ video_id = None
  /\ ui.messages = <<MsgInvalidUrl>>
  /\ Count(transcript_calls, youtube_link) = 0

\* C4 as stated: the messages shown for TranscriptsDisabled, NoTranscriptFound
\* and a transport failure are pairwise different.
C4_PairwiseDistinct ==
  \A c1 \in DOMAIN shownFor, c2 \in DOMAIN shownFor :
     c1 # c2 => shownFor[c1] \cap shownFor[c2] = {}

\* C4 amended: TranscriptsDisabled and NoTranscriptFound show one and the same
\* message, "No transcript available for this video."; a transport or other
\* failure shows a different message, "Error fetching transcript: " followed
\* by the text of the exception, which also differs from the invalid-URL one.
C4_TwoMessages ==
  \A c \in DOMAIN shownFor :
     IF c \in {"TranscriptsDisabled", "NoTranscriptFound"}
       THEN shownFor[c] = {<<MsgNoTranscript>>}
     ELSE \A shown \in shownFor[c] :
            /\ Len(shown) = 1
            /\ shown[1][1] = "Error fetching transcript: "
            /\ shown[1] # MsgNoTranscript
            /\ shown[1] # MsgInvalidUrl

C4_Witness ==
  /\ {"TranscriptsDisabled", "NoTranscriptFound"} \subseteq DOMAIN shownFor
  /\ shownFor["TranscriptsDisabled"] = shownFor["NoTranscriptFound"]

\* C5 (the code departs from it): when the transcript service succeeds with
\* an empty fragment sequence, the transcript text is empty, the generation
\* service is not called, no summary is rendered and the user is shown a
\* failure indication.
C5_EmptyTranscriptIsReported ==
  (Generated /\ youtube_link \in DOMAIN served /\ served[youtube_link] = <<>>)
  => /\ trace.tValue = <<>>
     /\ ~trace.gCalled
     /\ NothingRendered
     /\ ui.messages # <<>> \/ ui.statusState = "error"

RunKey == <<youtube_link, summary_length>>

\* C6: with no cache clear in between, the transcript service is called at
\* most once per link and the generation service at most once per (transcript
\* text, prompt); a Generate run repeating an earlier (link, length) calls no
\* service and renders what the first such run rendered.
C6_CallsAreMemoized ==
  /\ \A u \in DOMAIN transcript_calls : transcript_calls[u] <= 1
  /\ \A k \in DOMAIN gemini_calls : gemini_calls[k] <= 1
  /\ trace.repeat => NoServiceCalled /\ Outcome(ui) = seen[RunKey]

C6_Witness ==
  /\ Generated
  /\ trace.repeat
  /\ NoServiceCalled
  /\ ui.summary = <<"S","1">>
  /\ Count(transcript_calls, youtube_link) = 1
  /\ Count(gemini_calls, <<trace.tValue, SelectPrompt(summary_length)>>) = 1

\* C7 (the code departs from it): the Generate run that follows "Generate
\* Again" with the same link and length calls the transcript service and the
\* generation service anew.
C7_GenerateAgainReissues ==
  [][(clicked = "again" /\ clicked' = "generate"
        /\ youtube_link' = youtube_link /\ summary_length' = summary_length)
     => (trace'.tCalled /\ trace'.gCalled)]_vars

\* the rendered template, written out for each length
ExpectedTemplate(length) ==
  <<"[template lines 15-49]">>
  \o <<"K","e","e","p"," ","s","u","m","m","a","r","i","e","s"," ","u","n","d","e","r"," ">>
  \o (IF length = SHORT THEN <<"1","0","0">>
      ELSE IF length = DETAILED THEN <<"5","0","0">>
      ELSE <<"2","5","0">>)
  \o <<" ","w","o","r","d","s">>
  \o <<" ","(","a","d","j","u","s","t"," ","s","u","b","h","e","a","d","i","n","g"," ",
       "d","e","p","t","h"," ","a","s"," ","n","e","e","d","e","d",")",".">>
  \o <<"[template lines 51-66]">>

\* the fragment texts in order, one space between neighbours
RECURSIVE SpaceSeparated(_)
SpaceSeparated(texts) ==
  IF texts = <<>> THEN <<>>
  ELSE LET n == Len(texts)
       IN IF n = 1 THEN texts[1]
          ELSE SpaceSeparated(SubSeq(texts, 1, n - 1)) \o <<" ">> \o texts[n]

EndsWith(s, suffix) ==
  Len(suffix) <= Len(s) /\ SubSeq(s, Len(s) - Len(suffix) + 1, Len(s)) = suffix

ExampleLink == PrefixShort \o <<"X","Y","Z">>

ExampleFragments ==
  << <<"A","I">>, <<"i","s">>, <<"t","r","a","n","s","f","o","r","m","i","n","g">>,
     <<"c","o","d","i","n","g">> >>

ExampleText ==
  <<"A","I"," ","i","s"," ","t","r","a","n","s","f","o","r","m","i","n","g"," ",
    "c","o","d","i","n","g">>

\* C8: whenever the generation service is called, its argument is the
\* template rendered for the selected length (unchanged for Medium, "250
\* words" replaced by "100 words" for Short and by "500 words" for Detailed)
\* directly followed by the fragment texts joined with single spaces; for
\* https://youtu.be/XYZ, fragments AI, is, transforming, coding and Medium it
\* holds "250 words" and ends with "AI is transforming coding".
C8_PromptSent ==
  trace.gCalled
  => /\ youtube_link \in DOMAIN served
     /\ trace.sent = ExpectedTemplate(summary_length)
                       \o SpaceSeparated(served[youtube_link])
     /\ (youtube_link = ExampleLink /\ served[youtube_link] = ExampleFragments
           /\ summary_length = MEDIUM)
        => Contains(trace.sent, WORDS_250) /\ EndsWith(trace.sent, ExampleText)

C8_Witness ==
  /\ trace.gCalled
  /\ youtube_link = ExampleLink
  /\ summary_length = DETAILED
  /\ served[youtube_link] = ExampleFragments
  /\ Contains(trace.sent, WORDS_500)
  /\ ~Contains(trace.sent, WORDS_250)
  /\ EndsWith(trace.sent, ExampleText)

\* C9: in a Generate run no exception leaves extract_transcript_details or
\* generate_gemini_content; after a missing or invalid URL or an exception of the
\* transcript service an error message is shown, the transcript stage returns
\* None, the generation service is not called and nothing is rendered; after
\* an exception of the generation service an error message is shown, the
\* generation stage returns None and nothing is rendered.
C9_FailuresAreCaught ==
  Generated
  => /\ trace.propagated = NoExc
     /\ ui.statusState # "error"
     /\ (~Truthy(video_id) \/ trace.tRaised # NoExc)
        => /\ ui.messages # <<>>
           /\ trace.tValue = None
           /\ ~trace.gCalled
           /\ NothingRendered
     /\ trace.gRaised # NoExc
        => /\ ui.messages # <<>>
           /\ trace.gValue = None
           /\ NothingRendered

C9_Witness ==
  /\ Generated
  /\ trace.gRaised = "ResourceExhausted"
  /\ ui.messages = << <<"Gemini API error: ", "quota exceeded">> >>
  /\ ui.summary = None

\* C10: a failed call is stored like a successful one, and a Generate run
\* repeating a (link, length) whose first run rendered no summary calls no
\* service and renders no summary and the same messages again.
C10_FailuresAreMemoized ==
  /\ trace.tRaised # NoExc
     => /\ CacheHit(transcript_cache, youtube_link)
        /\ transcript_cache[youtube_link].value = None
  /\ trace.gRaised # NoExc
     => /\ CacheHit(gemini_cache, <<trace.tValue, SelectPrompt(summary_length)>>)
        /\ gemini_cache[<<trace.tValue, SelectPrompt(summary_length)>>].value = None
  /\ (trace.repeat /\ seen[RunKey].summary = None)
     => /\ NoServiceCalled
        /\ ui.summary = None
        /\ ui.messages = seen[RunKey].messages

C10_Witness ==
  /\ Generated
  /\ trace.repeat
  /\ NoServiceCalled
  /\ Count(transcript_calls, youtube_link) = 1
  /\ transcript_cache[youtube_link].value = None
  /\ ui.messages = << <<"Error fetching transcript: ", "connection timed out">> >>

====
